---- MODULE Spec2Model ----
\* VaultSafe `add` command (src/vaultsafe/commands/add.py) and its helpers in
\* src/vaultsafe/utils/cli_utils.py, as a state machine.  Each process is one
\* invocation of `vaultsafe add`; the shared state is the SQLite store
\* (credential rows, mnemonic rows) and the vault file on disk.
EXTENDS Integers, Sequences, FiniteSets, TLC

VARIABLES
    dbInit,         \* DATABASE_PATH.exists()
    credentials,    \* committed Credential rows, index = row id
    mnemonics,      \* committed Mnemonic rows, index = row id
    nkeys,          \* number of keys drawn from the random source so far
    runs,           \* number of `add` invocations started so far
    pc,             \* position of each invocation in add()
    inp,            \* command line and what the user types at the prompts
    master_passwd,  \* add.py local
    val,            \* add.py locals username, password, ..., notes
    vault_key,      \* add.py local
    credential_key, \* add.py local
    enc,            \* add.py locals encrypted_username, ..., encrypted_notes
    credential,     \* add.py local: the Credential object
    credId,         \* credential.id, set by the commit that inserts it
    log,            \* the steps each invocation has performed, in order
    stdin,          \* lines waiting on standard input (multiline_input run alone)
    notesOut        \* outcome of multiline_input run alone

vars == <<dbInit, credentials, mnemonics, nkeys, runs, pc, inp, master_passwd,
          val, vault_key, credential_key, enc, credential, credId, log,
          stdin, notesOut>>

addLocals == <<pc, inp, master_passwd, val, vault_key, credential_key, enc,
               credential, credId, log>>

-----------------------------------------------------------------------------
\* Bounds of the model.

MaxMnemonics == 2      \* longest tuple of -mn options
MaxRuns      == 2      \* invocations of add in one behaviour
MaxLines     == 6      \* longest standard input fed to multiline_input

Procs   == {"p1", "p2"}
Aliases == {"g1", "g2"}
Names   == {"Gmail"}
VaultPassword == "Secret123"
Passwords == {VaultPassword, "letmein"}
LineAlphabet == {"", "a", "b"}

FieldNames == {"username", "password", "url", "recovery_key",
               "primary_email", "secondary_email", "token", "notes"}

-----------------------------------------------------------------------------
\* Python values held by the locals of add().

PyFalse  == [py |-> "bool", b |-> FALSE]
PyTrue   == [py |-> "bool", b |-> TRUE]
PyNone   == [py |-> "None"]
PyStr(s) == [py |-> "str", s |-> s]

\* Python truthiness of a bool or str.
Truthy(v) ==
    IF v.py = "bool" THEN v.b
    ELSE IF v.py = "str" THEN v.s # ""
    ELSE FALSE

NoKey == [kind |-> "none", id |-> ""]

-----------------------------------------------------------------------------
\* cli_utils.multiline_input

\* "\n".join(lines)
RECURSIVE Join(_)
Join(lines) ==
    IF lines = <<>> THEN ""
    ELSE IF Len(lines) = 1 THEN lines[1]
    ELSE lines[1] \o "\n" \o Join(Tail(lines))

\* A slip in the slice: lines[:-3].
DropLastThree(lines) ==
    IF Len(lines) <= 3 THEN <<>> ELSE SubSeq(lines, 1, Len(lines) - 3)

\* lines[:-2]
DropLastTwo(lines) ==
    IF Len(lines) <= 2 THEN <<>> ELSE SubSeq(lines, 1, Len(lines) - 2)

\* The while loop: `rest` is what input() will still return, `consumed` the
\* number of input() calls made.  input() on exhausted input raises EOFError.
RECURSIVE ReadLoop(_, _, _, _)
ReadLoop(rest, lines, empty_line_count, consumed) ==
    IF rest = <<>> THEN [status |-> "EOFError", consumed |-> consumed, text |-> ""]
    ELSE LET line == Head(rest) IN
         IF line = ""
         THEN IF empty_line_count + 1 = 3
              THEN [status |-> "ok", consumed |-> consumed + 1,
                    text |-> Join(DropLastTwo(lines))]
              ELSE ReadLoop(Tail(rest), Append(lines, line),
                            empty_line_count + 1, consumed + 1)
         ELSE ReadLoop(Tail(rest), Append(lines, line), 0, consumed + 1)

multiline_input(input) == ReadLoop(input, <<>>, 0, 0)

-----------------------------------------------------------------------------
\* vaultsafe.utils.crypto_utils and vaultsafe.utils.auth_utils: called by
\* add(), defined outside the files at hand; modelled from the specification.

\* derive_vault_key(master_key): deterministic in the password.
derive_vault_key(master_key) == [kind |-> "vault", id |-> master_key]

\* generate_fernet_key(): the n-th draw from the random source; every draw is
\* a key never drawn before.
generate_fernet_key(n) == [kind |-> "data", id |-> ToString(n)]

\* encrypt(plaintext, key): a token that binds the plaintext to the key.
encrypt(plaintext, key) == [py |-> "bytes", key |-> key, pt |-> plaintext]

\* input_master_passwd_and_verify(): the typed password is returned only when
\* it matches the vault's verification artifact.
PasswordVerifies(typed) == typed = VaultPassword

-----------------------------------------------------------------------------
\* vaultsafe.db.models: the store.  Mnemonic.name carries a UNIQUE constraint
\* (specification, section 6); a commit that would break it raises
\* IntegrityError and persists nothing of its transaction.

Range(seq) == {seq[i] : i \in DOMAIN seq}

MnemonicNames == {mnemonics[i].name : i \in DOMAIN mnemonics}

NoDuplicates(seq) ==
    \A i, j \in DOMAIN seq : i # j => seq[i] # seq[j]

\* A store that does not enforce the constraint.
UniqueUnenforced(names) == TRUE

UniqueConstraintHolds(names) ==
    /\ NoDuplicates(names)
    /\ Range(names) \cap MnemonicNames = {}

\* resolve(alias): the credentials an alias leads to.
Resolve(alias) ==
    {mnemonics[i].credential_id : i \in {j \in DOMAIN mnemonics : mnemonics[j].name = alias}}

-----------------------------------------------------------------------------
\* What the user supplies to one invocation.  script[f] says, per optional
\* field, whether its flag is given and what is then typed at the prompt.

Choices == {"off", "empty", "text"}

RECURSIVE TuplesUpTo(_)
TuplesUpTo(n) ==
    IF n = 0 THEN {<<>>}
    ELSE LET shorter == TuplesUpTo(n - 1) IN
         shorter \cup {Append(t, a) : t \in shorter, a \in Aliases}

MnemonicTuples == TuplesUpTo(MaxMnemonics) \ {<<>>}

\* Lines typed at the notes prompt.
NotesTyped(choice) ==
    IF choice = "empty" THEN <<"", "", "">>
    ELSE <<"n1", "", "n2", "", "", "">>

\* Text typed at a click.prompt / get_password prompt.
Typed(f, choice) == IF choice = "empty" THEN "" ELSE f \o "-text"

AllScripts == [FieldNames -> Choices]

\* One script for the runs that are about the store: a password and notes are
\* typed, the username prompt is left empty, the other flags are not given.
FewScripts ==
    { [f \in FieldNames |-> IF f \in {"password", "notes"} THEN "text"
                            ELSE IF f = "username" THEN "empty" ELSE "off"] }

Inputs(scripts, tuples) ==
    [name : Names, mnemonics : tuples, script : scripts]

NoInput == [name |-> "", mnemonics |-> <<>>,
            script |-> [f \in FieldNames |-> "off"]]

NoFields == [f \in FieldNames |-> PyNone]
NoCredential == [name |-> "", fields |-> NoFields, encrypted_key |-> PyNone]

Terminal == {"exited", "auth_failed", "rejected", "failed", "done"}

-----------------------------------------------------------------------------
\* No invocation has started; the vault file may or may not exist.
InitAdd ==
    /\ dbInit \in BOOLEAN
    /\ credentials = <<>>
    /\ mnemonics = <<>>
    /\ nkeys = 0
    /\ runs = 0
    /\ pc = [p \in Procs |-> "idle"]
    /\ inp = [p \in Procs |-> NoInput]
    /\ master_passwd = [p \in Procs |-> ""]
    /\ val = [p \in Procs |-> [f \in FieldNames |-> PyFalse]]
    /\ vault_key = [p \in Procs |-> NoKey]
    /\ credential_key = [p \in Procs |-> NoKey]
    /\ enc = [p \in Procs |-> NoFields]
    /\ credential = [p \in Procs |-> NoCredential]
    /\ credId = [p \in Procs |-> 0]
    /\ log = [p \in Procs |-> <<>>]
    /\ notesOut = [status |-> "idle", consumed |-> 0, text |-> ""]

Init == InitAdd /\ stdin = <<>>

RECURSIVE LinesUpTo(_)
LinesUpTo(n) ==
    IF n = 0 THEN {<<>>}
    ELSE LET shorter == LinesUpTo(n - 1) IN
         shorter \cup {Append(t, l) : t \in shorter, l \in LineAlphabet}

\* multiline_input on its own: any standard input of at most MaxLines lines.
InitNotes == InitAdd /\ stdin \in LinesUpTo(MaxLines)

-----------------------------------------------------------------------------
\* cli_utils.check_db_init / assert_db_init

\* A check that lets every run through.
check_db_init_skipped == TRUE

check_db_init == dbInit

-----------------------------------------------------------------------------
\* add(): the pieces of its body.

\* The flag variables as click hands them over: True when the flag is given.
FlagValues(script) ==
    [f \in FieldNames |-> IF script[f] = "off" THEN PyFalse ELSE PyTrue]

\* Lines 72-110: every flagged variable is overwritten by what is typed.
PromptedValues(vals, script) ==
    [f \in FieldNames |->
        IF Truthy(vals[f])
        THEN IF f = "notes"
             THEN PyStr(multiline_input(NotesTyped(script[f])).text)
             ELSE PyStr(Typed(f, script[f]))
        ELSE vals[f]]

\* A test for "flag given" in place of the truthiness test.
EncryptIfGiven(v, key) ==
    IF v.py = "str" THEN encrypt(v.s, key) ELSE PyNone

\* Lines 119-126: encrypt(x, credential_key) if x else None
EncryptField(v, key) ==
    IF Truthy(v) THEN encrypt(v.s, key) ELSE PyNone

\* The two arguments exchanged: the vault key encrypted under the data key.
SealSwapped(key, vkey) == encrypt(vkey, key)

\* Line 128: encrypt(credential_key, vault_key)
SealKey(key, vkey) == encrypt(key, vkey)

\* `continue` in place of `return`: the loop only skips the taken alias.
CollisionIgnored(requested) == FALSE

\* Lines 145-151: some requested mnemonic is among the existing names.
AliasCollision(requested) ==
    LET existing_mnemonic_names == Range(requested) \cap MnemonicNames IN
    \E i \in DOMAIN requested : requested[i] \in existing_mnemonic_names

\* Only the first mnemonic is associated.
FirstMnemonicRow(requested, cid) ==
    <<[name |-> requested[1], credential_id |-> cid]>>

\* Lines 158-160: one Mnemonic per requested name, all for this credential.
NewMnemonicRows(requested, cid) ==
    [i \in DOMAIN requested |-> [name |-> requested[i], credential_id |-> cid]]

\* Lines 162-164: an exception from commit() leaves add() before the success panel.
AfterCommit(ok) == IF ok THEN "done" ELSE "failed"

Step(p, to, event) ==
    /\ pc' = [pc EXCEPT ![p] = to]
    /\ log' = [log EXCEPT ![p] = Append(@, event)]

-----------------------------------------------------------------------------
\* add(): one action per step.

\* A new `vaultsafe add ...` process.
Invoke(p, inputs) ==
    /\ pc[p] \in {"idle"} \cup Terminal
    /\ runs < MaxRuns
    /\ \E i \in inputs :
        /\ inp' = [inp EXCEPT ![p] = i]
        /\ val' = [val EXCEPT ![p] = FlagValues(i.script)]
    /\ runs' = runs + 1
    /\ pc' = [pc EXCEPT ![p] = "start"]
    /\ log' = [log EXCEPT ![p] = <<>>]
    /\ master_passwd' = [master_passwd EXCEPT ![p] = ""]
    /\ vault_key' = [vault_key EXCEPT ![p] = NoKey]
    /\ credential_key' = [credential_key EXCEPT ![p] = NoKey]
    /\ enc' = [enc EXCEPT ![p] = NoFields]
    /\ credential' = [credential EXCEPT ![p] = NoCredential]
    /\ credId' = [credId EXCEPT ![p] = 0]
    /\ UNCHANGED <<dbInit, credentials, mnemonics, nkeys, stdin, notesOut>>

\* Lines 64-65: print_basic_info(); assert_db_init()
AssertDbInit(p) ==
    /\ pc[p] = "start"
    /\ IF check_db_init
       THEN Step(p, "verify", "db_init_ok")
       ELSE Step(p, "exited", "db_init_missing")
    /\ UNCHANGED <<dbInit, credentials, mnemonics, nkeys, runs, inp,
                   master_passwd, val, vault_key, credential_key, enc,
                   credential, credId, stdin, notesOut>>

\* Line 70: master_passwd = input_master_passwd_and_verify()
VerifyMasterPassword(p) ==
    /\ pc[p] = "verify"
    /\ \E typed \in Passwords :
        IF PasswordVerifies(typed)
        THEN /\ master_passwd' = [master_passwd EXCEPT ![p] = typed]
             /\ Step(p, "prompt", "verify_ok")
        ELSE /\ UNCHANGED master_passwd
             /\ Step(p, "auth_failed", "verify_failed")
    /\ UNCHANGED <<dbInit, credentials, mnemonics, nkeys, runs, inp, val,
                   vault_key, credential_key, enc, credential, credId,
                   stdin, notesOut>>

\* Lines 72-110: the prompts.
PromptFields(p) ==
    /\ pc[p] = "prompt"
    /\ val' = [val EXCEPT ![p] = PromptedValues(@, inp[p].script)]
    /\ Step(p, "derive", "prompt")
    /\ UNCHANGED <<dbInit, credentials, mnemonics, nkeys, runs, inp,
                   master_passwd, vault_key, credential_key, enc, credential,
                   credId, stdin, notesOut>>

\* Line 113
DeriveVaultKey(p) ==
    /\ pc[p] = "derive"
    /\ vault_key' = [vault_key EXCEPT ![p] = derive_vault_key(master_passwd[p])]
    /\ Step(p, "genkey", "derive_vault_key")
    /\ UNCHANGED <<dbInit, credentials, mnemonics, nkeys, runs, inp,
                   master_passwd, val, credential_key, enc, credential,
                   credId, stdin, notesOut>>

\* Line 116
GenerateKey(p) ==
    /\ pc[p] = "genkey"
    /\ nkeys' = nkeys + 1
    /\ credential_key' = [credential_key EXCEPT ![p] = generate_fernet_key(nkeys + 1)]
    /\ Step(p, "encrypt", "generate_key")
    /\ UNCHANGED <<dbInit, credentials, mnemonics, runs, inp, master_passwd,
                   val, vault_key, enc, credential, credId, stdin, notesOut>>

\* Lines 119-126
EncryptFields(p) ==
    /\ pc[p] = "encrypt"
    /\ enc' = [enc EXCEPT ![p] =
                 [f \in FieldNames |-> EncryptField(val[p][f], credential_key[p])]]
    /\ Step(p, "seal", "encrypt_fields")
    /\ UNCHANGED <<dbInit, credentials, mnemonics, nkeys, runs, inp,
                   master_passwd, val, vault_key, credential_key, credential,
                   credId, stdin, notesOut>>

\* Lines 128-142: seal the key, build the Credential object.
SealAndBuild(p) ==
    /\ pc[p] = "seal"
    /\ credential' = [credential EXCEPT ![p] =
          [name |-> inp[p].name,
           fields |-> enc[p],
           encrypted_key |-> SealKey(credential_key[p], vault_key[p])]]
    /\ Step(p, "check", "seal_key")
    /\ UNCHANGED <<dbInit, credentials, mnemonics, nkeys, runs, inp,
                   master_passwd, val, vault_key, credential_key, enc,
                   credId, stdin, notesOut>>

\* Lines 145-151: the query and the loop that returns on an existing name.
CheckMnemonics(p) ==
    /\ pc[p] = "check"
    /\ IF AliasCollision(inp[p].mnemonics)
       THEN Step(p, "rejected", "alias_exists")
       ELSE Step(p, "commit_cred", "alias_free")
    /\ UNCHANGED <<dbInit, credentials, mnemonics, nkeys, runs, inp,
                   master_passwd, val, vault_key, credential_key, enc,
                   credential, credId, stdin, notesOut>>

\* Lines 154-155: session.add(credential); session.commit()
CommitCredential(p) ==
    /\ pc[p] = "commit_cred"
    /\ credentials' = Append(credentials, credential[p])
    /\ credId' = [credId EXCEPT ![p] = Len(credentials) + 1]
    /\ Step(p, "commit_mn", "commit_credential")
    /\ UNCHANGED <<dbInit, mnemonics, nkeys, runs, inp, master_passwd, val,
                   vault_key, credential_key, enc, credential, stdin, notesOut>>

\* Lines 158-164: the Mnemonic rows and the second commit.
CommitMnemonics(p) ==
    /\ pc[p] = "commit_mn"
    /\ LET rows == NewMnemonicRows(inp[p].mnemonics, credId[p])
           ok == UniqueConstraintHolds([i \in DOMAIN rows |-> rows[i].name])
       IN /\ mnemonics' = IF ok THEN mnemonics \o rows ELSE mnemonics
          /\ Step(p, AfterCommit(ok),
                  IF ok THEN "commit_mnemonics" ELSE "commit_mnemonics_rejected")
    /\ UNCHANGED <<dbInit, credentials, nkeys, runs, inp, master_passwd, val,
                   vault_key, credential_key, enc, credential, credId,
                   stdin, notesOut>>

AddStep(p) ==
    \/ AssertDbInit(p)
    \/ VerifyMasterPassword(p)
    \/ PromptFields(p)
    \/ DeriveVaultKey(p)
    \/ GenerateKey(p)
    \/ EncryptFields(p)
    \/ SealAndBuild(p)
    \/ CheckMnemonics(p)
    \/ CommitCredential(p)
    \/ CommitMnemonics(p)

\* Concurrent invocations of add against one vault.
Next ==
    \E p \in Procs :
        \/ Invoke(p, Inputs(FewScripts, MnemonicTuples))
        \/ AddStep(p)

Spec == Init /\ [][Next]_vars

\* One invocation on a fresh vault, over every combination of the eight flags
\* and of empty / non-empty answers.
NextFields ==
    \/ runs = 0 /\ Invoke("p1", Inputs(AllScripts, {<<"g1", "g2">>}))
    \/ AddStep("p1")

SpecFields == Init /\ [][NextFields]_vars

\* Lines 29-43 of cli_utils.py, run on the waiting standard input.
RunMultilineInput ==
    /\ notesOut.status = "idle"
    /\ notesOut' = multiline_input(stdin)
    /\ UNCHANGED <<dbInit, credentials, mnemonics, nkeys, runs, stdin>>
    /\ UNCHANGED addLocals

NextNotes == RunMultilineInput

SpecNotes == InitNotes /\ [][NextNotes]_vars

-----------------------------------------------------------------------------
\* Properties.

Requested(p) == Range(inp[p].mnemonics)

Has(l, e) == \E i \in DOMAIN l : l[i] = e

\* Position of the first occurrence of e in l, 0 when absent.
Pos(l, e) ==
    IF Has(l, e) THEN CHOOSE i \in DOMAIN l : l[i] = e /\ \A j \in 1..(i - 1) : l[j] # e
    ELSE 0

\* C1: no two Mnemonic rows of the committed store carry the same alias text,
\* whatever tuples the add operations were given (repeated aliases included).
C1_AliasUnique ==
    \A i, j \in DOMAIN mnemonics :
        i # j => mnemonics[i].name # mnemonics[j].name

\* An add given the same alias twice has run into its second commit while the
\* store already holds rows.
C1_Witness ==
    \E p \in Procs :
        /\ pc[p] = "failed"
        /\ ~NoDuplicates(inp[p].mnemonics)
        /\ mnemonics # <<>>

C3_CollisionLeavesStoreUnchanged ==
    /\ [](\A p \in Procs : pc[p] = "rejected" => credId[p] = 0)
    /\ [][\A p \in Procs :
            (/\ pc[p] = "check"
             /\ pc'[p] # "check"
             /\ Requested(p) \cap MnemonicNames # {})
            => (/\ pc'[p] = "rejected"
                /\ credentials' = credentials
                /\ mnemonics' = mnemonics
                /\ \A a \in MnemonicNames : Resolve(a)' = Resolve(a))]_vars

\* A rejected add that also asked for an alias that was free.
C3_Witness ==
    \E p \in Procs :
        /\ pc[p] = "rejected"
        /\ Requested(p) \cap MnemonicNames # {}
        /\ Requested(p) \ MnemonicNames # {}

\* C4: in every committed state a credential row created by an add is present
\* exactly when all the mnemonic rows it was asked for are present.
C4_CredentialVisibleWithAliases ==
    /\ \A p \in Procs :
          credId[p] \in DOMAIN credentials
              => \A a \in Requested(p) : credId[p] \in Resolve(a)
    /\ \A i \in DOMAIN mnemonics : mnemonics[i].credential_id \in DOMAIN credentials

\* C5: an add that failed (vault missing, wrong password, alias collision,
\* rejected commit) has left no credential row of its own in the store.
C5_FailedAddLeavesNoCredential ==
    \A p \in Procs :
        pc[p] \in {"exited", "auth_failed", "rejected", "failed"}
            => credId[p] \notin DOMAIN credentials

\* What the user supplied for a field, read off the script.
Supplied(f, choice) ==
    IF choice = "empty" THEN ""
    ELSE IF f = "notes" THEN "n1\n\nn2"
    ELSE f \o "-text"

\* C6: each of the eight optional fields of a persisted credential is None
\* when its flag was not given or the supplied value is empty, and otherwise a
\* ciphertext of the supplied value; no stored field encrypts the empty string.
C6_AbsentFieldsAreNone ==
    /\ \A p \in Procs :
          credId[p] \in DOMAIN credentials =>
              \A f \in FieldNames :
                  LET stored == credentials[credId[p]].fields[f]
                      choice == inp[p].script[f]
                  IN IF choice = "off" \/ Supplied(f, choice) = ""
                     THEN stored = PyNone
                     ELSE /\ stored.py = "bytes"
                          /\ stored.pt = Supplied(f, choice)
    /\ \A i \in DOMAIN credentials : \A f \in FieldNames :
          credentials[i].fields[f].py = "bytes" => credentials[i].fields[f].pt # ""

\* A persisted credential with a flag not given, a prompt left empty and a
\* prompt answered.
C6_Witness ==
    \E p \in Procs :
        /\ credId[p] \in DOMAIN credentials
        /\ \E f, g, h \in FieldNames :
              /\ inp[p].script[f] = "off"
              /\ inp[p].script[g] = "empty"
              /\ inp[p].script[h] = "text"
              /\ inp[p].script["notes"] = "empty"

\* C7: every persisted credential's encrypted_key is a data key sealed under
\* the vault key of the verified master password, its present fields are all
\* encrypted under that data key, and no two credentials share a data key.
C7_Envelope ==
    /\ \A i \in DOMAIN credentials :
          LET c == credentials[i] IN
          /\ c.encrypted_key.py = "bytes"
          /\ c.encrypted_key.key = derive_vault_key(VaultPassword)
          /\ c.encrypted_key.pt.kind = "data"
          /\ \A f \in FieldNames :
                c.fields[f].py = "bytes" => c.fields[f].key = c.encrypted_key.pt
    /\ \A i, j \in DOMAIN credentials :
          i # j => credentials[i].encrypted_key.pt # credentials[j].encrypted_key.pt

\* Two persisted credentials, each with a present field.
C7_Witness ==
    /\ Len(credentials) = 2
    /\ \A i \in DOMAIN credentials :
          \E f \in FieldNames : credentials[i].fields[f].py = "bytes"

\* C8: after a successful add every requested mnemonic resolves to the one
\* credential row that add created, and to no other.
C8_AliasFanIn ==
    \A p \in Procs :
        pc[p] = "done" => \A a \in Requested(p) : Resolve(a) = {credId[p]}

\* A successful add with two distinct mnemonics.
C8_Witness ==
    \E p \in Procs : pc[p] = "done" /\ Cardinality(Requested(p)) >= 2

LifecycleOrder ==
    <<"db_init_ok", "verify_ok", "generate_key", "encrypt_fields", "seal_key",
      "commit_credential", "commit_mnemonics">>

\* C9: the steps of add come in the lifecycle order, and a run in which the
\* vault is missing or the master password did not verify derives no vault
\* key, generates no data key and writes no row.
C9_Lifecycle ==
    /\ \A p \in Procs : \A k \in 2..Len(LifecycleOrder) :
          Has(log[p], LifecycleOrder[k]) =>
              /\ Has(log[p], LifecycleOrder[k - 1])
              /\ Pos(log[p], LifecycleOrder[k - 1]) < Pos(log[p], LifecycleOrder[k])
    /\ \A p \in Procs :
          (\/ vault_key[p] # NoKey
           \/ credential_key[p] # NoKey
           \/ credId[p] # 0
           \/ Has(log[p], "derive_vault_key"))
              => /\ dbInit
                 /\ Pos(log[p], "db_init_ok") = 1
                 /\ Pos(log[p], "verify_ok") = 2
                 /\ master_passwd[p] = VaultPassword
    /\ ~dbInit => (nkeys = 0 /\ credentials = <<>> /\ mnemonics = <<>>)

\* One run went through to the end while another stopped at the password.
C9_Witness ==
    \E p, q \in Procs : pc[p] = "done" /\ pc[q] = "auth_failed"

\* "\n".join, folded from the left.
RECURSIVE JoinFrom(_, _)
JoinFrom(acc, ls) ==
    IF ls = <<>> THEN acc ELSE JoinFrom(acc \o "\n" \o Head(ls), Tail(ls))

ExpectedText(ls) == IF ls = <<>> THEN "" ELSE JoinFrom(Head(ls), Tail(ls))

\* Ends of runs of three consecutive empty lines in the input.
TripleEnds ==
    {k \in 3..Len(stdin) : stdin[k - 2] = "" /\ stdin[k - 1] = "" /\ stdin[k] = ""}

\* C10: multiline_input stops exactly at the first third consecutive empty
\* line and returns the lines before that run of three, in order, joined by
\* newlines; it does not stop on input without such a run.
C10_MultilineInput ==
    notesOut.status # "idle" =>
        IF TripleEnds = {}
        THEN notesOut.status = "EOFError"
        ELSE LET k == CHOOSE n \in TripleEnds : \A m \in TripleEnds : n <= m IN
             /\ notesOut.status = "ok"
             /\ notesOut.consumed = k
             /\ notesOut.text = ExpectedText(SubSeq(stdin, 1, k - 3))

\* Text, an interior empty line, more text, then the three closing lines.
C10_Witness ==
    /\ notesOut.status = "ok"
    /\ \E i, j \in 1..(notesOut.consumed - 3) :
          i < j /\ stdin[i] = "" /\ stdin[j] # ""

====
